---- MODULE Spec2Model ----
(***************************************************************************)
(* DictObject (src/__init__.py): a dict subclass with attribute-style      *)
(* access.  The object is a backing store (the dict itself) and a          *)
(* secondary index, _attribute_to_key_map, from attribute names to keys.   *)
(*                                                                         *)
(* Data representation                                                     *)
(*   string   a sequence of one-character strings, <<"i","n","t">>         *)
(*   key      <<"str", s>>, <<"int", n>>, <<"bool", b>>, <<"none">>        *)
(*   value    <<"scalar", n>>, <<"dict", items>>, <<"list", elems>>,       *)
(*            <<"tuple", elems>>, <<"DictObject", store, index>>,          *)
(*            where items is a sequence of <<key, value>> pairs in the     *)
(*            dict's iteration order                                       *)
(*   store    a function from keys (up to Python equality, see Canon) to   *)
(*            values                                                       *)
(*   index    a function from names (strings) to keys (up to equality)     *)
(***************************************************************************)
EXTENDS Integers, Sequences, FiniteSets, TLC

VARIABLES store, index, last, hist

vars == <<store, index, last, hist>>

----------------------------------------------------------------------------
(* Characters and strings *)

Digits == {"0", "1", "2", "3", "4", "5", "6", "7", "8", "9"}

Letters ==
  {"a", "b", "c", "d", "e", "f", "g", "h", "i", "j", "k", "l", "m",
   "n", "o", "p", "q", "r", "s", "t", "u", "v", "w", "x", "y", "z",
   "A", "B", "C", "D", "E", "F", "G", "H", "I", "J", "K", "L", "M",
   "N", "O", "P", "Q", "R", "S", "T", "U", "V", "W", "X", "Y", "Z"}

(* the complement of \W: the characters re leaves alone *)
WordChars == Letters \cup Digits \cup {"_"}

DigitChar(d) == <<"0", "1", "2", "3", "4", "5", "6", "7", "8", "9">>[d + 1]

RECURSIVE NatToStr(_)
NatToStr(n) ==
  IF n < 10 THEN <<DigitChar(n)>>
  ELSE NatToStr(n \div 10) \o <<DigitChar(n % 10)>>

(* str(n) of an int *)
IntToStr(n) == IF n < 0 THEN <<"-">> \o NatToStr(-n) ELSE NatToStr(n)

(* str(key) *)
StrOf(key) ==
  CASE key[1] = "str" -> key[2]
    [] key[1] = "int" -> IntToStr(key[2])
    [] key[1] = "bool" -> IF key[2] THEN <<"T", "r", "u", "e">>
                          ELSE <<"F", "a", "l", "s", "e">>
    [] key[1] = "none" -> <<"N", "o", "n", "e">>

(* int(b) of a bool: True == 1 and False == 0 hash and compare equal *)
BoolToInt(b) == IF b THEN 1 ELSE 0

(* A key up to Python's == : the representative under which the dict (and *)
(* every comparison of keys) sees it.                                     *)
Canon(key) == IF key[1] = "bool" THEN <<"int", BoolToInt(key[2])>> ELSE key

----------------------------------------------------------------------------
(* Finite maps *)

EmptyMap == [x \in {} |-> x]

Put(f, k, v) == [x \in DOMAIN f \cup {k} |-> IF x = k THEN v ELSE f[x]]

Remove(f, k) == [x \in DOMAIN f \ {k} |-> f[x]]

----------------------------------------------------------------------------
(* unallowed_in_variable_name.sub('_', s): every maximal run of characters *)
(* outside WordChars becomes one underscore                                *)

RECURSIVE SubFrom(_, _, _)
SubFrom(s, i, inRun) ==
  IF i > Len(s) THEN <<>>
  ELSE IF s[i] \in WordChars THEN <<s[i]>> \o SubFrom(s, i + 1, FALSE)
  ELSE IF inRun THEN SubFrom(s, i + 1, TRUE)
  ELSE <<"_">> \o SubFrom(s, i + 1, TRUE)

unallowed_in_variable_name_sub(s) == SubFrom(s, 1, FALSE)

int_prefix == <<"i", "n", "t", "_">>

data_prefix == <<"d", "a", "t", "a", "_">>

(* get_attribute_name_by_key: [exc, name]; str(key)[0] raises IndexError   *)
(* on the empty string                                                     *)
get_attribute_name_by_key(key) ==
  LET s == StrOf(key) IN
  IF Len(s) = 0 THEN [exc |-> "IndexError", name |-> <<>>]
  ELSE [exc |-> "none",
        name |-> unallowed_in_variable_name_sub(
                   IF s[1] \in Digits THEN int_prefix \o s
                   ELSE IF key[1] # "str" THEN data_prefix \o s
                   ELSE s)]

----------------------------------------------------------------------------
(* Values *)

IsSeq(v) == v[1] \in {"list", "tuple"}

(* isinstance(v, dict), for the values handed in, which are plain: a dict,  *)
(* a list, a tuple or a scalar, nested                                     *)
IsDict(v) == v[1] = "dict"

EmptyDict == <<"dict", <<>>>>

(* the value None *)
NoneValue == <<"NoneType">>

RECURSIVE Hashable(_)
Hashable(v) ==
  CASE v[1] = "scalar" -> TRUE
    [] v[1] = "NoneType" -> TRUE
    [] v[1] = "tuple" -> \A i \in 1..Len(v[2]) : Hashable(v[2][i])
    [] OTHER -> FALSE

(* dict.__init__(self, arg) on an arg that is no mapping: what one element *)
(* of the sequence arg raises, "none" if it is taken as a key/value pair   *)
PairExc(e) ==
  IF e[1] = "scalar" \/ e[1] = "NoneType" THEN "TypeError"
  ELSE IF Len(e[2]) # 2 THEN "ValueError"
  ELSE IF IsSeq(e) /\ ~Hashable(e[2][1]) THEN "TypeError"
  ELSE "none"

RECURSIVE SeqInitExc(_, _)
SeqInitExc(elems, i) ==
  IF i > Len(elems) THEN "none"
  ELSE IF PairExc(elems[i]) # "none" THEN PairExc(elems[i])
  ELSE SeqInitExc(elems, i + 1)

(* dict.update of raw key/value pairs, in order *)
RECURSIVE RawPopulate(_, _, _)
RawPopulate(st, items, i) ==
  IF i > Len(items) THEN st
  ELSE RawPopulate(Put(st, Canon(items[i][1]), items[i][2]), items, i + 1)

(* dict.__init__(self, arg, kwargs...) on the new, empty object: the       *)
(* entries are stored as they are, unwrapped                               *)
DictInitArg(arg, kwargs) ==
  IF IsDict(arg)
    THEN [exc |-> "none",
          store |-> RawPopulate(RawPopulate(EmptyMap, arg[2], 1), kwargs[2], 1)]
  ELSE IF IsSeq(arg) /\ SeqInitExc(arg[2], 1) = "none"
    (* a sequence of pairs is accepted here; merge_dict rejects it later *)
    THEN [exc |-> "none", store |-> EmptyMap]
  ELSE [exc |-> IF IsSeq(arg) THEN SeqInitExc(arg[2], 1) ELSE "TypeError",
        store |-> EmptyMap]

(* the first statement of __init__: one positional argument goes to        *)
(* dict.__init__ with the keywords, any other number of them does not      *)
DictInit(args, kwargs) ==
  IF Len(args) = 1 THEN DictInitArg(args[1], kwargs)
  ELSE [exc |-> "none", store |-> RawPopulate(EmptyMap, kwargs[2], 1)]

(* the name of the instance field that holds the index *)
MapField ==
  <<"_", "a", "t", "t", "r", "i", "b", "u", "t", "e", "_", "t", "o", "_",
    "k", "e", "y", "_", "m", "a", "p">>

(* the first branch of __setattr__: the field itself is assigned; the     *)
(* result is the index afterwards                                          *)
SetAttrInternal(st, name, value) == value

(* Every operation returns a record whose exc is "none" or the exception   *)
(* raised.  An operator that continues after a call takes the call's       *)
(* result as a parameter.                                                  *)

RECURSIVE DictObject(_, _)
RECURSIVE WrapElems(_, _)
RECURSIVE MergeItems(_, _, _, _)
RECURSIVE MergeArgs(_, _, _, _)

(* the new DictObject o as a value *)
AsValue(o) ==
  IF o.exc # "none" THEN [exc |-> o.exc, value |-> NoneValue]
  ELSE [exc |-> "none", value |-> <<"DictObject", o.store, o.index>>]

(* DictObject(x) if isinstance(x, (dict, list, tuple)) else x *)
WrapElem(x) ==
  IF IsDict(x) \/ IsSeq(x) THEN AsValue(DictObject(<<x>>, EmptyDict))
  ELSE [exc |-> "none", value |-> x]

Prepend(v, rest) ==
  IF rest.exc # "none" THEN rest
  ELSE [exc |-> "none", elems |-> <<v>> \o rest.elems]

WrapRest(head, elems, i) ==
  IF head.exc # "none" THEN [exc |-> head.exc, elems |-> <<>>]
  ELSE Prepend(head.value, WrapElems(elems, i + 1))

(* the generator of _add_to_object_part, from element i on; the first      *)
(* exception ends it                                                       *)
WrapElems(elems, i) ==
  IF i > Len(elems) THEN [exc |-> "none", elems |-> <<>>]
  ELSE WrapRest(WrapElem(elems[i]), elems, i)

(* type(obj)(...): a sequence of obj's kind *)
AsSeq(kind, w) ==
  IF w.exc # "none" THEN [exc |-> w.exc, value |-> NoneValue]
  ELSE [exc |-> "none", value |-> <<kind, w.elems>>]

(* what _add_to_object_part stores for obj *)
Wrapped(obj) ==
  IF IsSeq(obj) THEN AsSeq(obj[1], WrapElems(obj[2], 1))
  ELSE IF IsDict(obj) THEN AsValue(DictObject(<<obj>>, EmptyDict))
  ELSE [exc |-> "none", value |-> obj]

(* dict.__setitem__(self, name, w), unless building w raised *)
StoreWrapped(st, name, w) ==
  IF w.exc # "none" THEN [exc |-> w.exc, store |-> st]
  ELSE [exc |-> "none", store |-> Put(st, Canon(name), w.value)]

(* _add_to_object_part(name, obj) *)
AddToObjectPart(st, name, obj) == StoreWrapped(st, name, Wrapped(obj))

(* the body of merge_dict's loop after _add_to_object_part returned r: the *)
(* name is registered to the key, whatever it was registered to            *)
MergeRegister(st, ix, items, i, name, r) ==
  IF r.exc # "none" THEN [exc |-> r.exc, store |-> st, index |-> ix]
  ELSE MergeItems(r.store, Put(ix, name, Canon(items[i][1])), items, i + 1)

MergeItem(st, ix, items, i, n) ==
  IF n.exc # "none" THEN [exc |-> n.exc, store |-> st, index |-> ix]
  ELSE MergeRegister(st, ix, items, i, n.name,
                     AddToObjectPart(st, items[i][1], items[i][2]))

(* the loop of merge_dict from entry i on: entries before a raising one    *)
(* stay applied                                                            *)
MergeItems(st, ix, items, i) ==
  IF i > Len(items) THEN [exc |-> "none", store |-> st, index |-> ix]
  ELSE MergeItem(st, ix, items, i, get_attribute_name_by_key(items[i][1]))

(* merge_dict without its isinstance check: nothing to iterate is nothing  *)
(* to merge                                                                *)
MergeDictUnchecked(st, ix, d) ==
  IF ~IsDict(d) THEN [exc |-> "none", store |-> st, index |-> ix]
  ELSE MergeItems(st, ix, d[2], 1)

(* merge_dict(d) *)
merge_dict(st, ix, d) ==
  IF ~IsDict(d) THEN [exc |-> "TypeError", store |-> st, index |-> ix]
  ELSE MergeItems(st, ix, d[2], 1)

MergeNext(r, args, i) ==
  IF r.exc # "none" THEN r ELSE MergeArgs(r.store, r.index, args, i + 1)

(* for arg in args: self.merge_dict(arg) *)
MergeArgs(st, ix, args, i) ==
  IF i > Len(args) THEN [exc |-> "none", store |-> st, index |-> ix]
  ELSE MergeNext(merge_dict(st, ix, args[i]), args, i)

(* __init__ without its last line: the keywords are not merged *)
MergeKeywordsSkipped(m, kwargs) == m

(* self.merge_dict(kwargs_dict), after the loop over args returned m *)
MergeKeywords(m, kwargs) ==
  IF m.exc # "none" THEN m ELSE merge_dict(m.store, m.index, kwargs)

(* __init__ after dict.__init__ returned init: the index is set to {}      *)
(* through __setattr__, then the args and the keywords are merged          *)
InitBody(init, args, kwargs) ==
  IF init.exc # "none"
    THEN [exc |-> init.exc, store |-> EmptyMap, index |-> EmptyMap]
  ELSE MergeKeywords(
         MergeArgs(init.store, SetAttrInternal(init.store, MapField, EmptyMap),
                   args, 1),
         kwargs)

(* DictObject(args..., kwargs...); kwargs is the dict of the keywords *)
DictObject(args, kwargs) == InitBody(DictInit(args, kwargs), args, kwargs)

----------------------------------------------------------------------------
(* The operations of the object.  Each returns a record: exc is "none" or  *)
(* the exception raised, store and index are the object afterwards.        *)

(* the while loop of __setitem__ without the second half of its test: a    *)
(* name registered to this key is passed over too                          *)
RECURSIVE NextFreeUnregistered(_, _, _, _)
NextFreeUnregistered(ix, attribute_name, ck, i) ==
  IF attribute_name \o <<"_">> \o IntToStr(i) \in DOMAIN ix
    THEN NextFreeUnregistered(ix, attribute_name, ck, i + 1)
  ELSE i

(* the while loop of __setitem__ with i = 2 for i = 1 *)
RECURSIVE NextFreeFromTwo(_, _, _, _)
NextFreeFromTwo(ix, attribute_name, ck, i) ==
  IF i < 2 THEN NextFreeFromTwo(ix, attribute_name, ck, 2)
  ELSE IF attribute_name \o <<"_">> \o IntToStr(i) \in DOMAIN ix
            /\ ix[attribute_name \o <<"_">> \o IntToStr(i)] # ck
    THEN NextFreeFromTwo(ix, attribute_name, ck, i + 1)
  ELSE i

(* the while loop of __setitem__: the first i >= 1 whose name + "_" + i is *)
(* unregistered or registered to this key                                  *)
RECURSIVE NextFree(_, _, _, _)
NextFree(ix, attribute_name, ck, i) ==
  LET unique_attribute_name == attribute_name \o <<"_">> \o IntToStr(i) IN
  IF unique_attribute_name \in DOMAIN ix /\ ix[unique_attribute_name] # ck
    THEN NextFree(ix, attribute_name, ck, i + 1)
  ELSE i

(* __setitem__ without its collision branch: the base name is taken as it *)
(* is, the way merge_dict takes it                                         *)
UniqueNameUnresolved(ix, key, attribute_name) ==
  [name |-> attribute_name, warn |-> FALSE]

(* unique_attribute_name of __setitem__ and whether the warning is        *)
(* printed, for a key whose attribute_name is given                        *)
UniqueName(ix, key, attribute_name) ==
  IF attribute_name \in DOMAIN ix /\ ix[attribute_name] # Canon(key)
    THEN [name |-> attribute_name \o <<"_">>
                     \o IntToStr(NextFree(ix, attribute_name, Canon(key), 1)),
          warn |-> TRUE]
  ELSE [name |-> attribute_name, warn |-> FALSE]

(* __setitem__ without its last line: the name is not registered *)
SetItemRegisterNoIndex(st, ix, key, u, r) ==
  [exc |-> r.exc, store |-> IF r.exc # "none" THEN st ELSE r.store,
   index |-> ix, name |-> u.name, warn |-> u.warn]

(* the end of __setitem__: _add_to_object_part returned r, then the name   *)
(* u.name is registered                                                    *)
SetItemRegister(st, ix, key, u, r) ==
  IF r.exc # "none"
    THEN [exc |-> r.exc, store |-> st, index |-> ix,
          name |-> u.name, warn |-> u.warn]
  ELSE [exc |-> "none", store |-> r.store,
        index |-> Put(ix, u.name, Canon(key)),
        name |-> u.name, warn |-> u.warn]

SetItemNamed(st, ix, key, value, n) ==
  IF n.exc # "none"
    THEN [exc |-> n.exc, store |-> st, index |-> ix,
          name |-> <<>>, warn |-> FALSE]
  ELSE SetItemRegister(st, ix, key, UniqueName(ix, key, n.name),
                       AddToObjectPart(st, key, value))

(* __setitem__(key, value) *)
SetItemOp(st, ix, key, value) ==
  SetItemNamed(st, ix, key, value, get_attribute_name_by_key(key))

(* __delitem__ with its two deletions in the other order, the order of     *)
(* __delattr__: a key missing from the store leaves the index alone        *)
DelItemStoreFirst(st, ix, key, n) ==
  IF n.exc # "none" THEN [exc |-> n.exc, store |-> st, index |-> ix]
  ELSE IF n.name \notin DOMAIN ix \/ Canon(key) \notin DOMAIN st
    THEN [exc |-> "KeyError", store |-> st, index |-> ix]
  ELSE [exc |-> "none", store |-> Remove(st, Canon(key)),
        index |-> Remove(ix, n.name)]

DelItemNamed(st, ix, key, n) ==
  IF n.exc # "none" THEN [exc |-> n.exc, store |-> st, index |-> ix]
  ELSE IF n.name \notin DOMAIN ix
    THEN [exc |-> "KeyError", store |-> st, index |-> ix]
  ELSE IF Canon(key) \notin DOMAIN st
    THEN [exc |-> "KeyError", store |-> st, index |-> Remove(ix, n.name)]
  ELSE [exc |-> "none", store |-> Remove(st, Canon(key)),
        index |-> Remove(ix, n.name)]

(* __delitem__(key): the index entry goes first, so a key missing from the *)
(* store leaves the index changed                                          *)
DelItemOp(st, ix, key) ==
  DelItemNamed(st, ix, key, get_attribute_name_by_key(key))

(* __setattr__ without its last line: nothing is stored under key_name *)
SetAttrStoreNoKey(st, ix, name, value, key_name, r) ==
  IF r.exc # "none" THEN [exc |-> r.exc, store |-> st, index |-> ix]
  ELSE [exc |-> "none", store |-> r.store, index |-> Put(ix, name, key_name)]

(* the end of __setattr__: _add_to_object_part(name, value) returned r,    *)
(* then the name is registered to key_name and the value as given is       *)
(* stored under key_name                                                   *)
SetAttrStore(st, ix, name, value, key_name, r) ==
  IF r.exc # "none" THEN [exc |-> r.exc, store |-> st, index |-> ix]
  ELSE [exc |-> "none", store |-> Put(r.store, key_name, value),
        index |-> Put(ix, name, key_name)]

(* __setattr__(name, value), name a string *)
SetAttrOp(st, ix, name, value) ==
  IF name = MapField
    THEN [exc |-> "none", store |-> st,
          index |-> SetAttrInternal(st, name, value)]
  ELSE SetAttrStore(st, ix, name, value,
                    IF name \in DOMAIN ix THEN ix[name] ELSE <<"str", name>>,
                    AddToObjectPart(st, <<"str", name>>, value))

(* Names that dict.__getattribute__ finds on every DictObject: the         *)
(* attributes of dict and of the class, and the instance field.  Some of   *)
(* them; the keys and names drawn below meet "pop" only.                   *)
ClassAttributes ==
  {<<"p", "o", "p">>, <<"g", "e", "t">>, <<"k", "e", "y", "s">>,
   <<"i", "t", "e", "m", "s">>, <<"c", "o", "p", "y">>,
   <<"m", "e", "r", "g", "e", "_", "d", "i", "c", "t">>, MapField}

(* what dict.__getattribute__ returns for such a name: not a stored value *)
ClassAttribute(name) == <<"attribute", name>>

(* __getattr__(name): [exc, ret].  With an empty index the lookup is       *)
(* skipped and the method falls off its end, returning None.               *)
GetAttrOp(st, ix, name) ==
  IF name \in ClassAttributes
    THEN [exc |-> "none", ret |-> ClassAttribute(name)]
  ELSE IF ix # EmptyMap
    THEN IF name \in DOMAIN ix /\ ix[name] \in DOMAIN st
           THEN [exc |-> "none", ret |-> st[ix[name]]]
         ELSE [exc |-> "AttributeError", ret |-> <<"str", name>>]
  ELSE [exc |-> "none", ret |-> NoneValue]

(* dict.__getitem__(key) *)
GetItemOp(st, key) ==
  IF Canon(key) \in DOMAIN st THEN [exc |-> "none", ret |-> st[Canon(key)]]
  ELSE [exc |-> "KeyError", ret |-> key]

(* __delattr__ with its two deletions in the other order, the order of     *)
(* __delitem__: a key missing from the store costs the name its entry      *)
DelAttrIndexFirst(st, ix, name) ==
  IF name \notin DOMAIN ix
    THEN [exc |-> "KeyError", store |-> st, index |-> ix]
  ELSE IF ix[name] \notin DOMAIN st
    THEN [exc |-> "KeyError", store |-> st, index |-> Remove(ix, name)]
  ELSE [exc |-> "none", store |-> Remove(st, ix[name]),
        index |-> Remove(ix, name)]

(* __delattr__(name): the store entry goes first *)
DelAttrOp(st, ix, name) ==
  IF name \notin DOMAIN ix \/ ix[name] \notin DOMAIN st
    THEN [exc |-> "KeyError", store |-> st, index |-> ix]
  ELSE [exc |-> "none", store |-> Remove(st, ix[name]),
        index |-> Remove(ix, name)]

(* hasattr(self, k): TypeError unless k is a string, else whether getattr  *)
(* raises no AttributeError                                                *)
HasAttr(st, ix, k) ==
  IF k[1] # "str" THEN [exc |-> "TypeError", ret |-> FALSE]
  ELSE [exc |-> "none", ret |-> GetAttrOp(st, ix, k[2]).exc = "none"]

(* the except clause of __contains__: any exception becomes False *)
Swallow(h) == IF h.exc # "none" THEN FALSE ELSE h.ret

(* __contains__(k) *)
ContainsOp(st, ix, k) ==
  IF Canon(k) \in DOMAIN st THEN TRUE ELSE Swallow(HasAttr(st, ix, k))

----------------------------------------------------------------------------
(* Inputs *)

(* Bounds.  Under Spec the store holds at most MaxKeys keys and the index  *)
(* at most MaxNames names; under SpecChain the store holds at most         *)
(* MaxChain keys.  A step that would exceed them is not taken.             *)
MaxKeys == 2

MaxNames == 2

MaxChain == 3

int_1 == <<"i", "n", "t", "_", "1">>

int_1_1 == int_1 \o <<"_", "1">>

int_1_2 == int_1 \o <<"_", "2">>

pop == <<"p", "o", "p">>

data_True == data_prefix \o <<"T", "r", "u", "e">>

Scalar0 == <<"scalar", 0>>

(* {"1": {"1": 0}} *)
DictValue ==
  <<"dict", << <<<<"str", <<"1">>>>,
                 <<"dict", << <<<<"str", <<"1">>>>, Scalar0>> >> >> >> >> >>

(* ({"1": 0}, 0) *)
TupleValue ==
  <<"tuple", << <<"dict", << <<<<"str", <<"1">>>>, Scalar0>> >> >>, Scalar0 >> >>

(* [[0]] *)
NestedList == <<"list", << <<"list", <<Scalar0>> >> >> >>

(* 1 and "1" derive int_1; True == 1 derives data_True; "pop" derives the  *)
(* name of a dict method                                                   *)
Keys == {<<"int", 1>>, <<"str", <<"1">>>>, <<"bool", TRUE>>, <<"str", pop>>}

(* "" has no first character *)
EmptyKey == <<"str", <<>>>>

Values == {Scalar0, DictValue}

(* what item-set is given: every key with every value, the key "", a       *)
(* tuple, and a list that holds a list                                     *)
SetInputs ==
  (Keys \X Values) \cup
  {<<EmptyKey, Scalar0>>, <<<<"int", 1>>, TupleValue>>,
   <<<<"str", pop>>, NestedList>>}

(* names given to attribute-set and attribute-delete: any string but the   *)
(* private field MapField, which callers leave alone                       *)
AttrNames == {int_1, pop}

SetAttrInputs == (AttrNames \X Values) \cup {<<pop, NestedList>>}

(* names and keys that are looked up *)
ReadNames == AttrNames \cup {int_1_1, int_1_2, data_True}

ReadKeys == Keys \cup {EmptyKey} \cup {<<"str", n>> : n \in ReadNames}

SrcKeys == {<<"int", 1>>, <<"str", <<"1">>>>}

SrcValues == {Scalar0, DictValue}

(* the dicts over SrcKeys and SrcValues, in every iteration order; the     *)
(* keys of a dict differ                                                   *)
Sources ==
  {<<"dict", items>> : items \in
     {q \in UNION {[1..n -> SrcKeys \X SrcValues] :
                     n \in 0..Cardinality(SrcKeys)} :
        \A i, j \in 1..Len(q) : i # j => Canon(q[i][1]) # Canon(q[j][1])}}

(* keyword arguments: the keys are strings *)
Keywords ==
  {EmptyDict} \cup
  {<<"dict", <<<<<<"str", <<"1">>>>, v>>>>>> : v \in SrcValues}

(* what merge_dict may be handed besides: a scalar, None, a dict with the  *)
(* key "", a dict with a value that cannot be wrapped                      *)
BadSources ==
  {Scalar0, NoneValue,
   <<"dict", << <<<<"int", 1>>, Scalar0>>, <<EmptyKey, Scalar0>> >> >>,
   <<"dict", << <<<<"int", 1>>, Scalar0>>, <<<<"str", pop>>, NestedList>> >> >>}

(* what merge_dict is given after construction *)
MergeSources ==
  BadSources \cup
  {<<"dict", << <<<<"str", <<"1">>>>, Scalar0>>,
                <<<<"int", 1>>, DictValue>> >> >>,
   <<"dict", << <<<<"int", 1>>, DictValue>> >> >>}

(* [(0, 0)]: a list of one pair, which dict() would take *)
PairList == <<"list", << <<"tuple", <<Scalar0, Scalar0>> >> >> >>

(* what += is given *)
IAddSources == {PairList, <<"dict", << <<<<"str", <<"1">>>>, Scalar0>> >> >>}

(* DictObject(), DictObject(a), DictObject(a, b), each with keywords *)
ArgLists ==
  {<<>>} \cup {<<a>> : a \in Sources} \cup {<<a, b>> : a, b \in Sources}

(* the keys of SpecChain: 1, "1", "int-.1" and "int_1" all derive int_1 *)
ChainKeys ==
  {<<"int", 1>>, <<"str", <<"1">>>>,
   <<"str", <<"i", "n", "t", "-", ".", "1">>>>, <<"str", int_1>>}

----------------------------------------------------------------------------
(* The state: the object b (store, index), the last operation on it with   *)
(* its outcome (last), and the keys item-set into it, in order of first    *)
(* occurrence, for as long as it was built from DictObject() by item-sets  *)
(* alone (hist).                                                           *)

NoHist == [clean |-> FALSE, keys |-> <<>>]

Record(op, key, value, exc, ret) ==
  [op |-> op, key |-> key, value |-> value, exc |-> exc, ret |-> ret]

(* b = DictObject(...), for the constructions that return *)
Constructed(args, kwargs, r, h) ==
  /\ r.exc = "none"
  /\ store = r.store
  /\ index = r.index
  /\ last = Record("init", args, kwargs, "none", <<>>)
  /\ hist = h

Init ==
  \E args \in ArgLists, kwargs \in Keywords :
    Constructed(args, kwargs, DictObject(args, kwargs), NoHist)

(* b = DictObject() *)
InitEmpty ==
  Constructed(<<>>, EmptyDict, DictObject(<<>>, EmptyDict),
              [clean |-> TRUE, keys |-> <<>>])

InSeq(x, q) == \E i \in 1..Len(q) : q[i] = x

(* An operation on b that returned or raised r: b is as r leaves it, and  *)
(* last tells the operation, its arguments and its outcome.                *)
Step(op, key, value, r, ret, h) ==
  /\ store' = r.store
  /\ index' = r.index
  /\ last' = Record(op, key, value, r.exc, ret)
  /\ hist' = h

(* hist after an item-set that returned or raised r *)
HistSet(key, r) ==
  IF r.exc # "none" \/ ~hist.clean \/ InSeq(Canon(key), hist.keys) THEN hist
  ELSE [hist EXCEPT !.keys = Append(@, Canon(key))]

(* hist after another operation: kept if the object is as it was *)
HistOther(r) == IF r.store = store /\ r.index = index THEN hist ELSE NoHist

SetItemDone(key, value, r) ==
  Step("setitem", key, value, r, <<r.name, r.warn>>, HistSet(key, r))

(* b[key] = value; ret is the name registered and whether the warning was  *)
(* printed                                                                 *)
SetItem(key, value) ==
  SetItemDone(key, value, SetItemOp(store, index, key, value))

DelItemDone(key, r) == Step("delitem", key, <<>>, r, <<>>, HistOther(r))

(* del b[key] *)
DelItem(key) == DelItemDone(key, DelItemOp(store, index, key))

SetAttrDone(name, value, r) ==
  Step("setattr", name, value, r, <<>>, HistOther(r))

(* b.name = value *)
SetAttr(name, value) ==
  SetAttrDone(name, value, SetAttrOp(store, index, name, value))

DelAttrDone(name, r) == Step("delattr", name, <<>>, r, <<>>, HistOther(r))

(* del b.name *)
DelAttr(name) == DelAttrDone(name, DelAttrOp(store, index, name))

MergeDone(op, d, r) == Step(op, d, <<>>, r, <<>>, HistOther(r))

(* b.merge_dict(d) *)
MergeDict(d) == MergeDone("merge_dict", d, merge_dict(store, index, d))

(* b += other: __iadd__ is merge_dict and returns self *)
IAdd(other) == MergeDone("iadd", other, merge_dict(store, index, other))

ReadDone(op, key, r) ==
  /\ last' = Record(op, key, <<>>, r.exc, r.ret)
  /\ UNCHANGED <<store, index, hist>>

(* b[key] *)
GetItem(key) == ReadDone("getitem", key, GetItemOp(store, key))

(* b.name *)
GetAttr(name) == ReadDone("getattr", name, GetAttrOp(store, index, name))

(* key in b *)
Contains(key) ==
  ReadDone("contains", key,
           [exc |-> "none", ret |-> ContainsOp(store, index, key)])

(* the object after the step is within the bounds *)
Within(maxKeys, maxNames) ==
  /\ Cardinality(DOMAIN store') <= maxKeys
  /\ Cardinality(DOMAIN index') <= maxNames

Next ==
  \/ \E in \in SetInputs : SetItem(in[1], in[2]) /\ Within(MaxKeys, MaxNames)
  \/ \E key \in Keys \cup {EmptyKey} : DelItem(key)
  \/ \E in \in SetAttrInputs :
       SetAttr(in[1], in[2]) /\ Within(MaxKeys, MaxNames)
  \/ \E name \in AttrNames : DelAttr(name)
  \/ \E d \in MergeSources : MergeDict(d) /\ Within(MaxKeys, MaxNames)
  \/ \E other \in IAddSources : IAdd(other) /\ Within(MaxKeys, MaxNames)
  \/ \E key \in {<<"int", 1>>} : GetItem(key)
  \/ \E name \in {int_1} : GetAttr(name)
  \/ \E key \in {<<"str", int_1>>} : Contains(key)

Spec == Init /\ [][Next]_vars

(* item-sets and deletes of keys that all derive int_1, from DictObject() *)
NextChain ==
  \/ \E key \in ChainKeys, value \in {Scalar0} :
       SetItem(key, value) /\ Within(MaxChain, MaxChain)
  \/ \E key \in ChainKeys : DelItem(key)
  \/ \E name \in {int_1, int_1_1, int_1_2} : DelAttr(name)

SpecChain == InitEmpty /\ [][NextChain]_vars

----------------------------------------------------------------------------
(* get_attribute_name_by_key on its own: a static method, applied to one   *)
(* key after another.  last tells the key and what the call returned or    *)
(* raised; the object stays DictObject().                                  *)

(* the longest string key drawn *)
MaxLen == 3

(* a digit, a letter, two characters outside the word characters, and the  *)
(* underscore                                                              *)
NameChars == {"1", "a", "-", ".", "_"}

(* the keys drawn: every string over NameChars up to MaxLen, the empty     *)
(* string included, and ints, bools and None                               *)
NameKeys ==
  {<<"str", s>> : s \in UNION {[1..n -> NameChars] : n \in 0..MaxLen}}
    \cup {<<"int", n>> : n \in {-1, 0, 1, 10}}
    \cup {<<"bool", b>> : b \in BOOLEAN}
    \cup {<<"none">>}

Derived(key, r) == Record("derive", key, <<>>, r.exc, r.name)

InitName ==
  /\ store = EmptyMap
  /\ index = EmptyMap
  /\ hist = NoHist
  /\ \E key \in NameKeys : last = Derived(key, get_attribute_name_by_key(key))

(* DictObject.get_attribute_name_by_key(key) *)
DeriveName(key) ==
  /\ last' = Derived(key, get_attribute_name_by_key(key))
  /\ UNCHANGED <<store, index, hist>>

NextName == \E key \in NameKeys : DeriveName(key)

SpecName == InitName /\ [][NextName]_vars

----------------------------------------------------------------------------
(* Properties *)

(* what _add_to_object_part makes of a value that can be wrapped *)
WrappedValue(v) == Wrapped(v).value

(* C1, as the specification states it: after b[K] = V returns, b[K] and    *)
(* b.N, N the name this item-set registered for K, both return the wrapped *)
(* V.                                                                      *)
C1_SetThenGet ==
  (last.op = "setitem" /\ last.exc = "none")
    => /\ GetItemOp(store, last.key)
            = [exc |-> "none", ret |-> WrappedValue(last.value)]
       /\ GetAttrOp(store, index, last.ret[1])
            = [exc |-> "none", ret |-> WrappedValue(last.value)]

(* C1, amended: after b[K] = V returns, b[K] returns the wrapped V, and so *)
(* does b.N, N the name this item-set registered for K, provided N is not  *)
(* the name of an attribute of the class (a dict method such as pop, the   *)
(* index field): such a name returns that attribute.                       *)
C1_SetThenGetUnlessClassAttribute ==
  (last.op = "setitem" /\ last.exc = "none")
    => /\ GetItemOp(store, last.key)
            = [exc |-> "none", ret |-> WrappedValue(last.value)]
       /\ GetAttrOp(store, index, last.ret[1])
            = IF last.ret[1] \in ClassAttributes
                THEN [exc |-> "none", ret |-> ClassAttribute(last.ret[1])]
              ELSE [exc |-> "none", ret |-> WrappedValue(last.value)]

(* C1's case: an item-set of a mapping whose key collided returned, and    *)
(* registered int_1_1                                                      *)
C1_Witness ==
  /\ last.op = "setitem"
  /\ last.exc = "none"
  /\ last.ret = <<int_1_1, TRUE>>
  /\ IsDict(last.value)

Suffixed(base, N) == base \o <<"_">> \o IntToStr(N)

(* name is registered to another key than ck *)
Taken(ix, name, ck) == name \in DOMAIN ix /\ ix[name] # ck

(* the base name of a key that has one *)
BaseName(key) == get_attribute_name_by_key(key).name

(* the i-th name of the chain int_1, int_1_1, int_1_2, ... *)
ChainName(i) == IF i = 1 THEN int_1 ELSE Suffixed(int_1, i - 1)

(* C3, first part: an item-set b[K] = V that finds K's base name           *)
(* registered to another key registers K under base_N, N the smallest      *)
(* positive integer with base_N unregistered or registered to K, and       *)
(* changes nothing else of the index.                                      *)
C3_SmallestFreeSuffix ==
  [][(/\ last'.op = "setitem"
      /\ last'.exc = "none"
      /\ Taken(index, BaseName(last'.key), Canon(last'.key)))
       => \E N \in 1..(Cardinality(DOMAIN index) + 1) :
            /\ last'.ret = <<Suffixed(BaseName(last'.key), N), TRUE>>
            /\ ~Taken(index, Suffixed(BaseName(last'.key), N), Canon(last'.key))
            /\ \A M \in 1..(N - 1) :
                 Taken(index, Suffixed(BaseName(last'.key), M), Canon(last'.key))
            /\ index' = Put(index, Suffixed(BaseName(last'.key), N),
                            Canon(last'.key))]_vars

(* C3, second part: after item-sets alone into DictObject(), of keys that  *)
(* all derive int_1, the keys are registered, in order of first            *)
(* occurrence, under int_1, int_1_1, int_1_2, ... and nothing else is.     *)
C3_ChainInOrder ==
  hist.clean
    => /\ DOMAIN index = {ChainName(i) : i \in 1..Len(hist.keys)}
       /\ \A i \in 1..Len(hist.keys) : index[ChainName(i)] = hist.keys[i]

(* C3: collisions are resolved by the smallest free suffix, and so k       *)
(* distinct keys with one base name, item-set into an empty container, are *)
(* registered under base, base_1, ..., base_(k-1) in order of first        *)
(* occurrence.                                                             *)
C3_CollisionResolution == C3_SmallestFreeSuffix /\ []C3_ChainInOrder

(* C3's case: the third distinct key with base name int_1 was item-set     *)
(* into a container built from DictObject() by item-sets alone, and        *)
(* registered int_1_2                                                      *)
C3_Witness ==
  /\ hist.clean
  /\ Len(hist.keys) >= 3
  /\ last.op = "setitem"
  /\ last.exc = "none"
  /\ last.ret = <<int_1_2, TRUE>>
  /\ Canon(last.key) = hist.keys[3]

(* for k, v in items: b[k] = v, from entry i on *)
RECURSIVE SetEach(_, _, _, _)
SetEachNext(r, items, i) == SetEach(r.store, r.index, items, i + 1)

SetEach(st, ix, items, i) ==
  IF i > Len(items) THEN [store |-> st, index |-> ix]
  ELSE SetEachNext(SetItemOp(st, ix, items[i][1], items[i][2]), items, i)

SameObject(m, s) == m.store = s.store /\ m.index = s.index

(* C4: from every state and for every source, merge_dict(source) leaves    *)
(* the store and the index that item-setting the entries of source, in     *)
(* order, leaves.                                                          *)
C4_MergeIsSetEach ==
  \A d \in Sources :
    SameObject(merge_dict(store, index, d), SetEach(store, index, d[2], 1))

(* C5: every key of the store has exactly one name of the index            *)
(* registered to it.                                                       *)
C5_OneNamePerKey ==
  \A k \in DOMAIN store : Cardinality({n \in DOMAIN index : index[n] = k}) = 1

(* C6: b.name, for a name that is no attribute of the class, raises        *)
(* AttributeError(name) whenever name is not registered or the key it is   *)
(* registered to is not in the store.                                      *)
C6_UnresolvableNameRaises ==
  \A name \in ReadNames \ ClassAttributes :
    (name \notin DOMAIN index \/ index[name] \notin DOMAIN store)
      => GetAttrOp(store, index, name)
           = [exc |-> "AttributeError", ret |-> <<"str", name>>]

(* whether str(k) is a registered name whose key is in the store *)
Resolvable(k) ==
  StrOf(k) \in DOMAIN index /\ index[StrOf(k)] \in DOMAIN store

(* C7: k in b is true exactly when k is a key of the store or str(k) is a  *)
(* registered name whose key is in the store (names of class attributes    *)
(* left aside).                                                            *)
C7_ContainsExactly ==
  \A k \in ReadKeys \ {<<"str", n>> : n \in ClassAttributes} :
    ContainsOp(store, index, k) = (Canon(k) \in DOMAIN store \/ Resolvable(k))

(* C8: the store holds no plain mapping, and after an item-set or an       *)
(* attribute-set of a mapping returned, the store holds under its key the  *)
(* DictObject made of that mapping.                                        *)
C8_MappingsAreWrapped ==
  /\ \A k \in DOMAIN store : ~IsDict(store[k])
  /\ (last.op = "setitem" /\ last.exc = "none" /\ IsDict(last.value))
       => store[Canon(last.key)] = WrappedValue(last.value)
  /\ (last.op = "setattr" /\ last.exc = "none" /\ IsDict(last.value))
       => store[index[last.key]] = WrappedValue(last.value)

(* the rule of C9 for one element e and what is stored for it *)
ElementWrapped(e, w) ==
  IF IsDict(e) THEN w[1] = "DictObject"
  ELSE IF IsSeq(e) THEN w[1] = e[1] /\ Len(w[2]) = Len(e[2])
  ELSE w = e

(* C9: an item-set of a list or a tuple under a key that has a name        *)
(* returns, and stores a sequence of the same kind and length whose        *)
(* elements are DictObjects for mappings, sequences of the same kind for   *)
(* sequences, and the elements themselves otherwise.                       *)
C9_SequencesAreWrapped ==
  (last.op = "setitem" /\ IsSeq(last.value) /\ last.key # EmptyKey)
    => /\ last.exc = "none"
       /\ store[Canon(last.key)][1] = last.value[1]
       /\ Len(store[Canon(last.key)][2]) = Len(last.value[2])
       /\ \A i \in 1..Len(last.value[2]) :
            ElementWrapped(last.value[2][i], store[Canon(last.key)][2][i])

(* the keys of a dict *)
KeysOf(d) == {Canon(d[2][i][1]) : i \in 1..Len(d[2])}

(* d[k] *)
ValueIn(d, k) == d[2][CHOOSE i \in 1..Len(d[2]) : Canon(d[2][i][1]) = k][2]

(* the last of the sources that has the key k *)
LastWith(srcs, k) ==
  CHOOSE j \in 1..Len(srcs) :
    k \in KeysOf(srcs[j]) /\ \A h \in (j + 1)..Len(srcs) : k \notin KeysOf(srcs[h])

(* the positional sources from left to right, then the keywords *)
SourcesOf(args, kwargs) == args \o <<kwargs>>

(* C10: DictObject(m1, ..., mn, keywords) has the keys of all its sources, *)
(* each with the wrapped value of the last source that has it, the         *)
(* keywords last.                                                          *)
C10_ConstructLastWins ==
  last.op = "init"
    => /\ DOMAIN store
            = UNION {KeysOf(SourcesOf(last.key, last.value)[j]) :
                       j \in 1..(Len(last.key) + 1)}
       /\ \A k \in DOMAIN store :
            store[k]
              = WrappedValue(
                  ValueIn(SourcesOf(last.key, last.value)
                            [LastWith(SourcesOf(last.key, last.value), k)], k))

(* C10's case: two differing positional sources and a keyword, with two    *)
(* keys between them                                                       *)
C10_Witness ==
  /\ last.op = "init"
  /\ Len(last.key) = 2
  /\ last.key[1] # last.key[2]
  /\ <<"str", <<"1">>>> \in KeysOf(last.key[1])
  /\ last.value # EmptyDict
  /\ Cardinality(DOMAIN store) = 2

(* whether the i-th character of s is outside [A-Za-z0-9_] *)
Outside(s, i) == s[i] \notin WordChars

(* whether the i-th character of s leaves a character in the result: a     *)
(* character of the set does, and so does the first of a run outside it    *)
Kept(s, i) == ~Outside(s, i) \/ i = 1 \/ ~Outside(s, i - 1)

(* how many characters of the result the first i characters of s leave *)
KeptUpTo(s, i) == Cardinality({j \in 1..i : Kept(s, j)})

(* s with every maximal run of characters outside [A-Za-z0-9_] replaced by *)
(* one underscore                                                          *)
RunsReplaced(s) ==
  [n \in 1..KeptUpTo(s, Len(s)) |->
     LET i == CHOOSE j \in 1..Len(s) : Kept(s, j) /\ KeptUpTo(s, j) = n
     IN IF Outside(s, i) THEN "_" ELSE s[i]]

(* the name C11 states for a key whose str(key) is s *)
StatedName(key, s) ==
  RunsReplaced(IF Len(s) > 0 /\ s[1] \in Digits THEN <<"i", "n", "t", "_">> \o s
               ELSE IF key[1] # "str" THEN <<"d", "a", "t", "a", "_">> \o s
               ELSE s)

(* C11: get_attribute_name_by_key returns for every key, strings of any    *)
(* length included, and returns "int_" + str(key) if str(key) begins with  *)
(* a digit, else "data_" + str(key) if key is no string, else str(key),    *)
(* with every maximal run of characters outside [A-Za-z0-9_] replaced by   *)
(* one underscore: a non-empty name that begins with no digit.             *)
C11_NameDefinedForEveryKey ==
  last.op = "derive"
    => /\ last.exc = "none"
       /\ last.ret = StatedName(last.key, StrOf(last.key))
       /\ Len(last.ret) > 0
       /\ last.ret[1] \notin Digits

(* whether key is registered under its base name or under base_N *)
RegisteredByName(ix, key) ==
  \/ BaseName(key) \in DOMAIN ix /\ ix[BaseName(key)] = Canon(key)
  \/ \E N \in 1..Cardinality(DOMAIN ix) :
       /\ Suffixed(BaseName(key), N) \in DOMAIN ix
       /\ ix[Suffixed(BaseName(key), N)] = Canon(key)

(* the item-set that returned r warned of no collision and left the index  *)
(* ix                                                                      *)
Reused(ix, r) == r.exc = "none" /\ ~r.warn /\ r.index = ix

(* {key: 0} *)
OneEntry(key) == <<"dict", << <<key, Scalar0>> >> >>

(* C12: from every state, an item-set or a merge of a key that is          *)
(* registered, under its base name or under a suffixed one, leaves the     *)
(* index as it is, and the item-set prints no collision warning; an        *)
(* item-set of a key that is not registered prints the warning exactly if  *)
(* it registers a suffixed name.                                           *)
C12_ReassignReusesRegistration ==
  \A key \in Keys :
    /\ RegisteredByName(index, key)
         => /\ Reused(index, SetItemOp(store, index, key, Scalar0))
            /\ merge_dict(store, index, OneEntry(key)).index = index
    /\ ~RegisteredByName(index, key)
         => (SetItemOp(store, index, key, Scalar0).warn
               <=> SetItemOp(store, index, key, Scalar0).name # BaseName(key))

(* the keys an operation is on: the key of an item-set, the keys of the    *)
(* dict merged, the key an attribute-set writes and the name itself        *)
KeysOn(ix, op, arg) ==
  CASE op = "setitem" -> {Canon(arg)}
    [] op \in {"merge_dict", "iadd"} -> IF IsDict(arg) THEN KeysOf(arg) ELSE {}
    [] op = "setattr" ->
         {<<"str", arg>>} \cup (IF arg \in DOMAIN ix THEN {ix[arg]} ELSE {})
    [] OTHER -> {}

(* C13: a name that is the base name of the key K it is registered to      *)
(* stays registered to K over every item-set, attribute-set and merge on   *)
(* other keys than K.                                                      *)
C13_BaseNameKeepsItsKey ==
  [][\A n \in DOMAIN index :
       (/\ n = BaseName(index[n])
        /\ last'.op \in {"setitem", "setattr", "merge_dict", "iadd"}
        /\ index[n] \notin KeysOn(index, last'.op, last'.key))
         => (n \in DOMAIN index' /\ index'[n] = index[n])]_vars

(* C14: b.merge_dict(d) and b += d with d no dict raise TypeError and      *)
(* leave the store and the index as they were.                             *)
C14_MergeOfNoDictRaises ==
  [][(last'.op \in {"merge_dict", "iadd"} /\ ~IsDict(last'.key))
       => /\ last'.exc = "TypeError"
          /\ store' = store
          /\ index' = index]_vars

(* C14's case: += of a list of pairs on a container that holds something   *)
(* raised                                                                  *)
C14_Witness ==
  /\ last.op = "iadd"
  /\ last.key = PairList
  /\ last.exc = "TypeError"
  /\ store # EmptyMap
  /\ index # EmptyMap

(* f without its entry for x, if it has one *)
Without(f, g, x) ==
  /\ DOMAIN g = DOMAIN f \ {x}
  /\ \A y \in DOMAIN g : g[y] = f[y]

(* C15: del b[K], for a key K that has a base name: if the base name is    *)
(* not registered it raises KeyError and changes nothing; else it removes  *)
(* the index entry of the base name, whichever key it is registered to,    *)
(* and no other index entry, and then removes K from the store, or raises  *)
(* KeyError if K is not in the store.                                      *)
C15_DelItemByBaseName ==
  [][(last'.op = "delitem" /\ get_attribute_name_by_key(last'.key).exc = "none")
       => IF BaseName(last'.key) \notin DOMAIN index
            THEN last'.exc = "KeyError" /\ store' = store /\ index' = index
          ELSE /\ Without(index, index', BaseName(last'.key))
               /\ IF Canon(last'.key) \in DOMAIN store
                    THEN /\ last'.exc = "none"
                         /\ Without(store, store', Canon(last'.key))
                  ELSE last'.exc = "KeyError" /\ store' = store]_vars

(* C15's case: del b[K] returned, it removed the base name of K, which was *)
(* registered to another key, and left int_1_1, registered to K            *)
C15_Witness ==
  /\ last.op = "delitem"
  /\ last.exc = "none"
  /\ BaseName(last.key) = int_1
  /\ int_1 \notin DOMAIN index
  /\ int_1_1 \in DOMAIN index
  /\ index[int_1_1] = Canon(last.key)
  /\ Canon(last.key) \notin DOMAIN store
  /\ store # EmptyMap

(* C16: del b.name, if name is registered and its key is in the store,     *)
(* removes that key from the store and name from the index and nothing     *)
(* else; otherwise it raises KeyError and leaves the store and the index   *)
(* as they were.                                                           *)
C16_DelAttrAllOrNothing ==
  [][last'.op = "delattr"
       => IF last'.key \in DOMAIN index /\ index[last'.key] \in DOMAIN store
            THEN /\ last'.exc = "none"
                 /\ Without(store, store', index[last'.key])
                 /\ Without(index, index', last'.key)
          ELSE last'.exc = "KeyError" /\ store' = store /\ index' = index]_vars

(* C16's case: del b.name raised on a name that is registered to a key the *)
(* store no longer holds, beside a key it does hold                        *)
C16_Witness ==
  /\ last.op = "delattr"
  /\ last.exc = "KeyError"
  /\ last.key \in DOMAIN index
  /\ index[last.key] \notin DOMAIN store
  /\ store # EmptyMap

(* the names whose entry differs between the indexes ix and jx *)
Rewritten(ix, jx) ==
  {n \in DOMAIN ix \cup DOMAIN jx :
     n \notin DOMAIN ix \/ n \notin DOMAIN jx \/ ix[n] # jx[n]}

(* C17: b[K] = V, whether it returns or raises, changes no entry of the    *)
(* store but K's and at most one entry of the index; the name it registers *)
(* was unregistered or registered to K before and is registered to K       *)
(* after; every name registered to another key stays registered to it.     *)
C17_SetItemSparesOtherKeys ==
  [][last'.op = "setitem"
       => /\ DOMAIN store \subseteq DOMAIN store'
          /\ DOMAIN store' \subseteq DOMAIN store \cup {Canon(last'.key)}
          /\ \A k \in DOMAIN store \ {Canon(last'.key)} : store'[k] = store[k]
          /\ Cardinality(Rewritten(index, index')) <= 1
          /\ \A n \in DOMAIN index :
               index[n] # Canon(last'.key)
                 => (n \in DOMAIN index' /\ index'[n] = index[n])
          /\ last'.exc = "none"
               => /\ Rewritten(index, index') \subseteq {last'.ret[1]}
                  /\ (last'.ret[1] \notin DOMAIN index
                        \/ index[last'.ret[1]] = Canon(last'.key))
                  /\ index'[last'.ret[1]] = Canon(last'.key)
          /\ last'.exc # "none" => (store' = store /\ index' = index)]_vars

(* C17's case: an item-set returned whose key's base name is registered to *)
(* another key, which the store holds with a mapping as its value          *)
C17_Witness ==
  /\ last.op = "setitem"
  /\ last.exc = "none"
  /\ BaseName(last.key) \in DOMAIN index
  /\ index[BaseName(last.key)] # Canon(last.key)
  /\ index[BaseName(last.key)] \in DOMAIN store
  /\ store[index[BaseName(last.key)]][1] = "DictObject"
  /\ last.ret[1] # BaseName(last.key)

(* the item-set that returned r registered name and left the store st and *)
(* the index ix                                                            *)
SameAgain(st, ix, name, r) ==
  r.exc = "none" /\ r.store = st /\ r.index = ix /\ r.name = name

(* C18: after b[K] = V returned, b[K] = V once more returns, registers the *)
(* name the first call registered, and leaves the store and the index as   *)
(* the first call left them.                                               *)
C18_SetItemTwiceIsOnce ==
  (last.op = "setitem" /\ last.exc = "none")
    => SameAgain(store, index, last.ret[1],
                 SetItemOp(store, index, last.key, last.value))

(* C18's case: an item-set of a tuple returned and registered the suffixed *)
(* name int_1_1, int_1 being registered to another key                     *)
C18_Witness ==
  /\ last.op = "setitem"
  /\ last.exc = "none"
  /\ last.value = TupleValue
  /\ last.ret = <<int_1_1, TRUE>>
  /\ int_1 \in DOMAIN index
  /\ index[int_1] # Canon(last.key)

====
